---- MODULE Spec2Model ----
(***************************************************************************)
(* Outbound file delivery of the contact-conversion bot (src/bot.js):      *)
(* the RateLimiter task queue and sendFilesInGroups, which sends files in  *)
(* groups through the module-level rateLimiter and cleans them up.         *)
(*                                                                         *)
(* JavaScript runs one job at a time: every action below is one job, from  *)
(* the event that starts it (a timer, the return of an external call, a    *)
(* settled promise) to the next await.  Time is kept in ticks of 1/32 ms   *)
(* so that repeated multiplication by 1.5 stays exact.                     *)
(***************************************************************************)
EXTENDS Integers, Sequences, FiniteSets, TLC

\* ------------------------------------------------------------ bounds
NTasks == 3          \* tasks submitted directly to a RateLimiter (SpecQ)
MaxTaskFaults == 5   \* attempts of directly submitted tasks that raise in one run (SpecQ)
NLoops == 2          \* activations of RateLimiter.process that can coexist
NCalls == 2          \* calls of sendFilesInGroups that can overlap
MaxFaults == 6       \* sendMediaGroup calls that raise in a run of one call
MaxFaultsShared == 2 \* sendMediaGroup calls that raise in a run of overlapping calls

\* ------------------------------------------------------------ constants
TicksPerMs == 2 ^ 5
Ms(x) == x * TicksPerMs

maxRetries == 5
timeout == 30000
maxJitter == 1000

Min(S) == CHOOSE x \in S : \A y \in S : x <= y

\* Math.random() * 1000: the two ends of [0, 1000)
Jitters == {0, Ms(maxJitter) - 1}
\* new RateLimiter(interval): the module instance (3000) and the test's (1000)
Intervals == {Ms(1000), Ms(3000)}
\* an external call that takes longer than the queue's timeout
SlowCall == Ms(timeout) + 1
\* elapsed times are kept up to the first value beyond the timeout
Sat(x) == IF x > Ms(timeout) THEN Ms(timeout) + 1 ELSE x

DirectTasks == {[call |-> 0, grp |-> 0, n |-> k] : k \in 1..NTasks}
Loops == 1..NLoops

VARIABLES
    interval,     \* this.interval
    queue,        \* this.queue: the queued item objects, by reference
    items,        \* the item objects: retries, backoffTime, elapsed = now - startTime
    processing,   \* this.processing
    loop,         \* activations of process(): where each is suspended, its `item`, its timer
    promise,      \* the promise add() returned for each task
    hist,         \* per task: what its attempts did (observation only)
    addOrder,     \* tasks in the order add() was called (observation only)
    firstOrder,   \* tasks in the order of their first attempt (observation only)
    sinceEnd,     \* time since an attempt last ended, up to the interval; -1: none has
    files,        \* per call of sendFilesInGroups: its `files` argument
    call,         \* per call: where it is suspended and its local variables
    initial,      \* the paths that exist when the calls are made
    exists,       \* the paths fs.existsSync answers true for
    locked,       \* the paths fs.unlinkSync raises on
    unlinks,      \* per path: calls of fs.unlinkSync (observation only)
    unlinkMissing,\* paths fs.unlinkSync was called on while absent (observation only)
    replies,      \* per call: the texts passed to ctx.reply, in order (observation only)
    log,          \* per call: what sendFilesInGroups wrote with console.error, in order
    sends         \* per call and group: sendMediaGroup calls made, calls returned (observation only)

qvars == <<interval, queue, items, processing, loop, promise, hist, addOrder, firstOrder, sinceEnd>>
fvars == <<exists, unlinks, unlinkMissing>>
cvars == <<files, initial, locked>>
pvars == <<files, call, initial, exists, locked, unlinks, unlinkMissing, replies, log>>
vars == <<interval, queue, items, processing, loop, promise, hist, addOrder, firstOrder, sinceEnd,
          files, call, initial, exists, locked, unlinks, unlinkMissing, replies, log, sends>>

NoTask == [call |-> 0, grp |-> 0, n |-> 0]
IdleLoop == [pc |-> "idle", item |-> NoTask, timer |-> 0]

\* Every invocation of a task produces its own value: the result it returns or
\* the error object it raises, named by the task and the number of the attempt.
Result(t, k) == [ok |-> TRUE, task |-> t, attempt |-> k]
Error(t, k) == [ok |-> FALSE, task |-> t, attempt |-> k]
NoValue == [ok |-> FALSE, task |-> NoTask, attempt |-> 0]

\* ------------------------------------------------------------ jobs
Calls == 1..NCalls

groupSize == 10

\* Math.floor(i / groupSize) + 1
Ordinal(i) == (i \div groupSize) + 1

\* the task object of the add() a call makes for its current group and attempt
TaskOf(c, cr) == [call |-> c, grp |-> Ordinal(cr.i), n |-> cr.retryCount + 1]

\* A settled promise whose awaiting call has not run yet. Promise reactions
\* run before any timer or I/O callback, so nothing else runs while one waits.
Reaction == \E c \in Calls : /\ call[c].pc = "await_add"
                             /\ TaskOf(c, call[c]) \in DOMAIN promise
                             /\ promise[TaskOf(c, call[c])].state # "pending"

\* ------------------------------------------------------------ RateLimiter
\* the object add() pushes
NewItem == [retries |-> 0, backoffTime |-> interval, elapsed |-> 0]

NewPromise == [state |-> "pending", value |-> NoValue, retries |-> 0, settles |-> 0]

\* last and prev are the backoff of the item's latest retry and of the one
\* before (0: none); reset says the item's backoff had been set back to the
\* interval (line 63) between those two
NewHist == [attempts |-> 0, fails |-> 0, late |-> FALSE, owed |-> {},
            last |-> 0, prev |-> 0, reset |-> FALSE]

\* (variant: the backoff doubles)
BackoffDouble(b) == b * 2
\* item.backoffTime *= this.backoffMultiplier
Backoff(b) == (b * 3) \div 2

\* (variant: gives up one failure too late)
ExhaustedLate(it) == it.retries > maxRetries \/ it.elapsed > Ms(timeout)
\* (variant: gives up one failure too early)
ExhaustedEarly(it) == it.retries >= maxRetries - 1 \/ it.elapsed > Ms(timeout)
\* (variant: without the timeout test)
ExhaustedNoTimeout(it) == it.retries >= maxRetries
\* item.retries >= this.maxRetries || Date.now() - item.startTime > this.timeout
Exhausted(it) == it.retries >= maxRetries \/ it.elapsed > Ms(timeout)

\* (variant: the served item is not removed)
ShiftNone(q) == q
\* this.queue.shift()
Shift(q) == IF q = <<>> THEN q ELSE Tail(q)

\* (variant: the failed item keeps the head of the queue)
RequeueInPlace(q) == q
\* this.queue.push(this.queue.shift())
Requeue(q) == IF q = <<>> THEN q ELSE Append(Tail(q), Head(q))

\* (variant: add() never calls process())
AddStartsLoopNever(p) == FALSE
\* (variant: add() calls process() whatever the flag says)
AddStartsLoopAlways(p) == TRUE
\* if (!this.processing) this.process()
AddStartsLoop(p) == ~p

\* (variant: the item's resolve and reject are never called)
SettleNever(p, st, v, r) == p
\* resolve(v) / reject(e) of a promise: only the first call settles it
Settle(p, st, v, r) ==
    IF p.state = "pending"
    THEN [state |-> st, value |-> v, retries |-> r, settles |-> p.settles + 1]
    ELSE [p EXCEPT !.settles = p.settles + 1]

\* What `await item.task()` suspends on: the sends of sendFilesInGroups first
\* wait 500 ms, a task submitted directly is running in its collaborator.
TaskStart(t) == IF t.call = 0 THEN [pc |-> "run", item |-> t, timer |-> 0]
                ELSE [pc |-> "delay", item |-> t, timer |-> Ms(500)]

InQueue(q) == {q[k] : k \in 1..Len(q)}

\* (variant: the newest item is served)
Back(q) == q[Len(q)]
\* const item = this.queue[0]
Front(q) == q[1]

\* (variant: the flag is left set when the loop stops)
ProcessingWhenEmptyStays == TRUE
\* this.processing = false on an empty queue
ProcessingWhenEmpty == FALSE

\* process(), from its entry to its first await, run by activation l on queue
\* q with loop table lp; h and fo are the observations before the call
ProcessEntry(l, q, lp, h, fo) ==
    IF Len(q) = 0
    THEN [processing |-> ProcessingWhenEmpty, loop |-> [lp EXCEPT ![l] = IdleLoop],
          hist |-> h, firstOrder |-> fo]
    ELSE LET t == Front(q) IN
         [processing |-> TRUE,
          loop |-> [lp EXCEPT ![l] = TaskStart(t)],
          hist |-> [u \in DOMAIN h |->
                      IF u = t THEN [h[u] EXCEPT !.attempts = @ + 1]
                      ELSE [h[u] EXCEPT !.owed = @ \ {t}]],
          firstOrder |-> IF t \in DOMAIN h /\ h[t].attempts = 0
                         THEN Append(fo, t) ELSE fo]

\* the activation a new call of process() runs in
FreeLoop == Min({l \in Loops : loop[l].pc = "idle"})

\* add(task) with the call of process() it makes, for a task object t
AddTask(t) ==
    LET q1 == Append(queue, t)
        h1 == (t :> NewHist) @@ hist
    IN  /\ queue' = q1
        /\ items' = (t :> NewItem) @@ items
        /\ promise' = (t :> NewPromise) @@ promise
        /\ addOrder' = Append(addOrder, t)
        /\ UNCHANGED <<interval, sinceEnd>>
        /\ IF AddStartsLoop(processing)
           THEN /\ \E l \in Loops : loop[l].pc = "idle"
                /\ LET r == ProcessEntry(FreeLoop, q1, loop, h1, firstOrder) IN
                   /\ processing' = r.processing
                   /\ loop' = r.loop
                   /\ hist' = r.hist
                   /\ firstOrder' = r.firstOrder
           ELSE /\ hist' = h1
                /\ UNCHANGED <<processing, loop, firstOrder>>

\* item.retries++ and, when the item stays, item.backoffTime *= 1.5
Failed(it) == LET it1 == [it EXCEPT !.retries = @ + 1] IN
              IF Exhausted(it1) THEN it1
              ELSE [it1 EXCEPT !.backoffTime = Backoff(@)]

\* (variant: a success leaves the next item's backoff as it is)
ForgiveNone(q, its) == its
\* this.queue[0].backoffTime = this.interval, after the shift
Forgive(q, its) == IF Len(q) > 0 /\ q[1] \in DOMAIN its
                   THEN [its EXCEPT ![q[1]].backoffTime = interval]
                   ELSE its

\* activation l is inside `await item.task()`: the task is executing
Running(l) == loop[l].pc \in {"delay", "send", "run"}

\* attempts of directly submitted tasks that raised so far
RECURSIVE SumFails(_)
SumFails(S) == IF S = {} THEN 0
               ELSE LET t == CHOOSE x \in S : TRUE IN hist[t].fails + SumFails(S \ {t})
TaskFaults == SumFails({t \in DOMAIN hist : t.call = 0})

\* sendMediaGroup calls that raised so far
RECURSIVE SumFailed(_, _)
SumFailed(f, S) == IF S = {} THEN 0
                   ELSE LET g == CHOOSE x \in S : TRUE IN f[g].failed + SumFailed(f, S \ {g})
RECURSIVE SumOver(_)
SumOver(C) == IF C = {} THEN 0
              ELSE LET c == CHOOSE x \in C : TRUE IN
                   SumFailed(sends[c], DOMAIN sends[c]) + SumOver(C \ {c})
SendFaults == SumOver(DOMAIN sends)
\* how many sendMediaGroup calls the transport lets fail in this run
FaultBudget == IF Cardinality({c \in DOMAIN call : call[c].pc # "unused"}) > 1
               THEN MaxFaultsShared ELSE MaxFaults

\* (variant: the wait after an attempt is the jitter alone)
ThrottleWaitJitterOnly(iv, jitter) == jitter
\* the wait of line 80: this.interval + jitter
ThrottleWait(iv, jitter) == iv + jitter

\* the task of activation l returned: lines 59-64, 79-80
\* (variant: the timeout of line 69 is applied to a task that returned as well)
ReturnSettlesUnlessLate(it) == IF it.elapsed > Ms(timeout) THEN "rejected" ELSE "resolved"
\* item.resolve(result) at line 60, whatever the age of the item
ReturnSettles(it) == "resolved"

TaskReturn(l, jitter) ==
    LET t == loop[l].item
        result == Result(t, hist[t].attempts)
        q1 == Shift(queue)
    IN  /\ ~Reaction
        /\ loop[l].pc \in {"send", "run"}
        /\ UNCHANGED pvars
        /\ promise' = [promise EXCEPT ![t] = Settle(@, ReturnSettles(items[t]), result, items[t].retries)]
        /\ queue' = q1
        /\ items' = Forgive(q1, items)
        /\ loop' = [loop EXCEPT ![l] = [pc |-> "throttle", item |-> t,
                                        timer |-> ThrottleWait(interval, jitter)]]
        /\ sends' = IF t.call = 0 THEN sends
                    ELSE [sends EXCEPT ![t.call][t.grp].ok = @ + 1]
        /\ sinceEnd' = 0
        /\ UNCHANGED <<interval, processing, hist, addOrder, firstOrder>>

\* the task of activation l raised: lines 65-77, 79-80
TaskRaise(l, jitter) ==
    LET t == loop[l].item
        error == Error(t, hist[t].attempts)
        it1 == Failed(items[t])
    IN  /\ ~Reaction
        /\ loop[l].pc \in {"send", "run"}
        /\ UNCHANGED pvars
        /\ t.call # 0 => SendFaults < FaultBudget
        /\ t.call = 0 => TaskFaults < MaxTaskFaults
        /\ sends' = IF t.call = 0 THEN sends
                    ELSE [sends EXCEPT ![t.call][t.grp].failed = @ + 1]
        /\ items' = [items EXCEPT ![t] = it1]
        /\ hist' = [hist EXCEPT ![t].fails = @ + 1,
                                ![t].late = @ \/ items[t].elapsed > Ms(timeout),
                                ![t].owed = IF Exhausted(it1) THEN @
                                            ELSE InQueue(queue) \ {t},
                                ![t].last = IF Exhausted(it1) THEN @ ELSE it1.backoffTime,
                                ![t].prev = IF Exhausted(it1) THEN @ ELSE hist[t].last,
                                ![t].reset = IF Exhausted(it1) THEN @
                                             ELSE hist[t].last # 0
                                                  /\ items[t].backoffTime # hist[t].last]
        /\ IF Exhausted(it1)
           THEN /\ promise' = [promise EXCEPT ![t] = Settle(@, "rejected", error, it1.retries)]
                /\ queue' = Shift(queue)
                /\ loop' = [loop EXCEPT ![l] = [pc |-> "throttle", item |-> t,
                                                timer |-> ThrottleWait(interval, jitter)]]
           ELSE /\ queue' = Requeue(queue)
                /\ loop' = [loop EXCEPT ![l] = [pc |-> "backoff", item |-> t,
                                                timer |-> it1.backoffTime]]
                /\ UNCHANGED promise
        /\ sinceEnd' = 0
        /\ UNCHANGED <<interval, processing, addOrder, firstOrder>>

\* setTimeout(resolve, item.backoffTime) fired: lines 75, 79-80
BackoffDone(l, jitter) ==
    /\ ~Reaction
    /\ loop[l].pc = "backoff"
    /\ UNCHANGED <<pvars, sends>>
    /\ loop[l].timer = 0
    /\ loop' = [loop EXCEPT ![l] = [@ EXCEPT !.pc = "throttle", !.timer = ThrottleWait(interval, jitter)]]
    /\ UNCHANGED <<interval, queue, items, processing, promise, hist, addOrder, firstOrder, sinceEnd>>

\* setTimeout(resolve, this.interval + jitter) fired: line 81 and process() again
ThrottleDone(l) ==
    /\ ~Reaction
    /\ loop[l].pc = "throttle"
    /\ loop[l].timer = 0
    /\ UNCHANGED <<pvars, sends>>
    /\ LET r == ProcessEntry(l, queue, loop, hist, firstOrder) IN
       /\ processing' = r.processing
       /\ loop' = r.loop
       /\ hist' = r.hist
       /\ firstOrder' = r.firstOrder
    /\ UNCHANGED <<interval, queue, items, promise, addOrder, sinceEnd>>

\* the 500 ms of a send task are over: ctx.telegram.sendMediaGroup is called
TaskDelayDone(l) ==
    LET t == loop[l].item IN
    /\ ~Reaction
    /\ loop[l].pc = "delay"
    /\ loop[l].timer = 0
    /\ UNCHANGED pvars
    /\ loop' = [loop EXCEPT ![l].pc = "send"]
    /\ sends' = [sends EXCEPT ![t.call][t.grp].invoked = @ + 1]
    /\ UNCHANGED <<interval, queue, items, processing, promise, hist, addOrder, firstOrder, sinceEnd>>

\* ------------------------------------------------------------ sendFilesInGroups
maxRetriesGroup == 5

\* (variant: the slice takes the element at its end index too)
SliceInclusive(fs, i, j) == SubSeq(fs, i + 1, IF j + 1 < Len(fs) THEN j + 1 ELSE Len(fs))
\* files.slice(i, i + groupSize)
Slice(fs, i, j) == SubSeq(fs, i + 1, IF j < Len(fs) THEN j ELSE Len(fs))
Group(c, i) == Slice(files[c], i, i + groupSize)

\* Math.ceil(files.length / groupSize)
NumGroups(n) == (n + groupSize - 1) \div groupSize

\* A file reference is its position in the list, naming the path <<c, position>>;
\* 0 stands for an entry that is no object (reading file.path raises).
Path(c, f) == <<c, f>>
PathsOf(c, g) == {Path(c, g[k]) : k \in {m \in 1..Len(g) : g[m] # 0}}

\* fileGroup.map(file => ... file.path ...) raises
BuildFails(g) == \E k \in 1..Len(g) : g[k] = 0

\* (variant: unlink without asking whether the path exists)
ShouldUnlinkAlways(p, ex) == TRUE
\* if (fs.existsSync(file.path)) fs.unlinkSync(file.path)
ShouldUnlink(p, ex) == p \in ex

\* the error objects sendFilesInGroups can catch: the TypeError of reading the
\* path of an entry that is no object, the error of an fs.unlinkSync call, the
\* error the m-th ctx.reply of a call raised
NoError == [kind |-> "none", call |-> 0, at |-> 0]
TypeError(c, f) == [kind |-> "type", call |-> c, at |-> f]
UnlinkError(c, f) == [kind |-> "unlink", call |-> c, at |-> f]
ReplyError(c, m) == [kind |-> "reply", call |-> c, at |-> m]

\* the TypeError fileGroup.map raises: at the first entry that is no object
BuildError(c, g, i) == TypeError(c, i + Min({k \in 1..Len(g) : g[k] = 0}))

\* a console.error line: its prefix and the error it prints (and, as an
\* observation, the loop index i when it was written; -1 outside the loop)
Logged(tag, e, i) == [tag |-> tag, error |-> e, i |-> i]

\* console.error('File cleanup error:', e) for the entries of g, in order
RECURSIVE CleanupErrors(_, _, _, _, _)
CleanupErrors(c, g, i, pos, ex) ==
    IF g = <<>> THEN <<>>
    ELSE LET f == Head(g)
             here == IF f = 0 THEN <<Logged("cleanup", TypeError(c, pos), i)>>
                     ELSE IF ShouldUnlink(Path(c, f), ex) /\ Path(c, f) \in locked
                     THEN <<Logged("cleanup", UnlinkError(c, f), i)>>
                     ELSE <<>>
         IN  here \o CleanupErrors(c, Tail(g), i, pos + 1, ex)

\* (variant: an fs.unlinkSync that raises ends the cleanup of the group)
UnlinkedUntilError(c, g, tried) ==
    LET at(p) == Min({k \in 1..Len(g) : g[k] # 0 /\ Path(c, g[k]) = p})
        bad == tried \cap locked
    IN  {p \in tried : \A b \in bad : at(p) < at(b)}
\* the paths of group g the finally block removes: those it tried, but for the
\* ones whose fs.unlinkSync raised
Unlinked(c, g, tried) == tried \ locked

\* the finally block of a group: lines 141-151; lg is the call's log so far
Cleanup(c, g, i, lg) ==
    LET tried == {p \in PathsOf(c, g) : ShouldUnlink(p, exists)} IN
    /\ log' = [log EXCEPT ![c] = lg \o CleanupErrors(c, g, i, i + 1, exists)]
    /\ exists' = exists \ Unlinked(c, g, tried)
    /\ unlinks' = [p \in DOMAIN unlinks |-> IF p \in tried THEN unlinks[p] + 1 ELSE unlinks[p]]
    /\ unlinkMissing' = unlinkMissing \cup (tried \ exists)

\* texts given to ctx.reply
ProgressText(sc, n) == [kind |-> "progress", a |-> sc, b |-> n, groups |-> 0, hint |-> FALSE]
\* (variant: the failure notification counts the groups from 0)
FailureTextZeroBased(k) == [kind |-> "failure", a |-> k - 1, b |-> 0, groups |-> 0, hint |-> FALSE]
FailureText(k) == [kind |-> "failure", a |-> k, b |-> 0, groups |-> 0, hint |-> FALSE]
\* (variant: the group count rounded down)
SummaryTextFloor(sc, nf, n) == [kind |-> "summary", a |-> sc, b |-> nf, groups |-> n \div groupSize,
                                hint |-> nf > 0]
SummaryText(sc, nf, n) == [kind |-> "summary", a |-> sc, b |-> nf, groups |-> NumGroups(n),
                           hint |-> nf > 0]

\* (variant: progress is reported at multiples of 30 only)
ProgressDueMultipleOnly(sc, i, n) == sc % 30 = 0
\* successCount % 30 === 0 || i + groupSize >= files.length
ProgressDue(sc, i, n) == sc % 30 = 0 \/ i + groupSize >= n

\* the caller drops the settled promise: nothing refers to the item any more
Forget(t) ==
    LET keep(S) == [u \in (DOMAIN S) \ {t} |-> S[u]] IN
    /\ promise' = keep(promise)
    /\ items' = keep(items)
    /\ hist' = [u \in (DOMAIN hist) \ {t} |-> [hist[u] EXCEPT !.owed = @ \ {t}]]
    /\ addOrder' = SelectSeq(addOrder, LAMBDA u : u # t)
    /\ firstOrder' = SelectSeq(firstOrder, LAMBDA u : u # t)
    /\ UNCHANGED <<interval, queue, processing, loop, sinceEnd>>

\* rateLimiter.add(async () => {...}) at line 113, and the await on it
Submit(c, cr) ==
    /\ call' = [call EXCEPT ![c] = [cr EXCEPT !.pc = "await_add"]]
    /\ AddTask(TaskOf(c, cr))
    /\ UNCHANGED <<fvars, replies, log>>

\* (variant: the loop test lets the index reach the length)
MoreGroupsInclusive(i, n) == i <= n
\* the loop test of line 98: i < files.length
MoreGroups(i, n) == i < n

\* lines 98-111 for the group at cr.i, or lines 156-162 after the last group
Enter(c, cr) ==
    LET g == Group(c, cr.i)
        n == Len(files[c])
    IN  IF ~MoreGroups(cr.i, n)
        THEN /\ call' = [call EXCEPT ![c] = [cr EXCEPT !.pc = "reply_summary"]]
             /\ replies' = [replies EXCEPT ![c] =
                              Append(@, SummaryText(cr.successCount, Len(cr.failedFiles), n))]
             /\ UNCHANGED <<qvars, fvars, log>>
        ELSE IF BuildFails(g)
        THEN /\ call' = [call EXCEPT ![c] = [cr EXCEPT !.failedFiles = @ \o g,
                                                       !.pc = "group_delay",
                                                       !.timer = Ms(3000)]]
             /\ Cleanup(c, g, cr.i, Append(log[c], Logged("group", BuildError(c, g, cr.i), cr.i)))
             /\ UNCHANGED <<qvars, replies>>
        ELSE Submit(c, [cr EXCEPT !.retryCount = 0, !.backoffTime = Ms(3000)])

\* sendFilesInGroups(ctx, files) is called: line 96
Start(c) ==
    /\ ~Reaction
    /\ call[c].pc = "init"
    /\ UNCHANGED cvars
    /\ call' = [call EXCEPT ![c].pc = "warmup", ![c].timer = Ms(1000)]
    /\ UNCHANGED <<qvars, fvars, replies, log, sends>>

\* the warm-up wait is over
WarmupDone(c) ==
    /\ ~Reaction
    /\ call[c].pc = "warmup"
    /\ UNCHANGED cvars
    /\ call[c].timer = 0
    /\ Enter(c, call[c])
    /\ UNCHANGED sends

\* the promise of add() resolved: lines 117-118, 128-132, then the finally block
AddResolved(c) ==
    LET cr == call[c]
        t == TaskOf(c, cr)
        g == Group(c, cr.i)
        sc == cr.successCount + Len(g)
    IN  /\ cr.pc = "await_add"
        /\ UNCHANGED cvars
        /\ t \in DOMAIN promise
        /\ promise[t].state = "resolved"
        /\ Forget(t)
        /\ IF ProgressDue(sc, cr.i, Len(files[c]))
           THEN /\ call' = [call EXCEPT ![c] = [cr EXCEPT !.successCount = sc,
                                                          !.backoffTime = Ms(3000),
                                                          !.pc = "reply_progress"]]
                /\ replies' = [replies EXCEPT ![c] = Append(@, ProgressText(sc, Len(files[c])))]
                /\ UNCHANGED <<fvars, log>>
           ELSE /\ call' = [call EXCEPT ![c] = [cr EXCEPT !.successCount = sc,
                                                          !.backoffTime = Ms(3000),
                                                          !.pc = "group_delay",
                                                          !.timer = Ms(3000)]]
                /\ Cleanup(c, g, cr.i, log[c])
                /\ UNCHANGED replies
        /\ UNCHANGED sends

\* the promise of add() rejected: lines 119-124
AddRejected(c, jitter) ==
    LET cr == call[c]
        t == TaskOf(c, cr)
        b == Backoff(cr.backoffTime)
    IN  /\ cr.pc = "await_add"
        /\ UNCHANGED cvars
        /\ t \in DOMAIN promise
        /\ promise[t].state = "rejected"
        /\ Forget(t)
        /\ call' = [call EXCEPT ![c] = [cr EXCEPT !.retryCount = @ + 1,
                                                  !.backoffTime = b,
                                                  !.pc = "retry_wait",
                                                  !.timer = b + jitter]]
        /\ UNCHANGED <<fvars, replies, log, sends>>

\* (variant: the while loop allows one attempt more)
RetryAgainOnceMore(rc) == rc <= maxRetriesGroup
\* the while test of line 111 after a failed attempt: retryCount < maxRetries
RetryAgain(rc) == rc < maxRetriesGroup

\* the wait of line 124 is over: the while test, then line 113 or lines 134-135
RetryWaitDone(c) ==
    LET cr == call[c]
        g == Group(c, cr.i)
    IN  /\ ~Reaction
        /\ cr.pc = "retry_wait"
        /\ UNCHANGED cvars
        /\ cr.timer = 0
        /\ IF RetryAgain(cr.retryCount)
           THEN Submit(c, cr)
           ELSE /\ call' = [call EXCEPT ![c] = [cr EXCEPT !.failedFiles = @ \o g,
                                                          !.pc = "reply_failure"]]
                /\ replies' = [replies EXCEPT ![c] = Append(@, FailureText(Ordinal(cr.i)))]
                /\ UNCHANGED <<qvars, fvars, log>>
        /\ UNCHANGED sends

\* (variant: a raising notification leaves the loop over the groups)
ReplyDoneAborts(c, ok) ==
    LET cr == call[c]
        g == Group(c, cr.i)
    IN  /\ ~Reaction
        /\ cr.pc \in {"reply_progress", "reply_failure"}
        /\ UNCHANGED cvars
        /\ IF ok
           THEN /\ call' = [call EXCEPT ![c] = [cr EXCEPT !.pc = "group_delay",
                                                          !.timer = Ms(3000)]]
                /\ Cleanup(c, g, cr.i, log[c])
           ELSE /\ call' = [call EXCEPT ![c] = [cr EXCEPT !.pc = "thrown",
                                                          !.error = ReplyError(c, Len(replies[c]))]]
                /\ UNCHANGED <<fvars, log>>
        /\ UNCHANGED <<qvars, replies, sends>>

\* ctx.reply of line 131 or 135 returned (ok) or raised: catch of line 138, finally
ReplyDone(c, ok) ==
    LET cr == call[c]
        g == Group(c, cr.i)
    IN  /\ ~Reaction
        /\ cr.pc \in {"reply_progress", "reply_failure"}
        /\ UNCHANGED cvars
        /\ call' = [call EXCEPT ![c] = [cr EXCEPT !.failedFiles = IF ok THEN @ ELSE @ \o g,
                                                  !.pc = "group_delay",
                                                  !.timer = Ms(3000)]]
        /\ Cleanup(c, g, cr.i,
                   IF ok THEN log[c]
                   ELSE Append(log[c], Logged("group", ReplyError(c, Len(replies[c])), cr.i)))
        /\ UNCHANGED <<qvars, replies, sends>>

\* (variant: the index advances by two groups)
NextIndexSkips(i) == i + 2 * groupSize
\* i += groupSize at line 98
NextIndex(i) == i + groupSize

\* the wait of line 153 is over: the next group, or the summary
GroupDelayDone(c) ==
    /\ ~Reaction
    /\ call[c].pc = "group_delay"
    /\ UNCHANGED cvars
    /\ call[c].timer = 0
    /\ Enter(c, [call[c] EXCEPT !.i = NextIndex(@)])
    /\ UNCHANGED sends

\* (variant: the outer catch logs the error and the outcome is returned)
OuterCatchSwallows(cr, e) == [cr EXCEPT !.pc = "returned"]
\* the outer catch, lines 166-169: throw error
OuterCatch(cr, e) == [cr EXCEPT !.pc = "thrown", !.error = e]

\* ctx.reply of line 156 returned (line 164) or raised (lines 166-168)
SummaryDone(c, ok) ==
    /\ ~Reaction
    /\ call[c].pc = "reply_summary"
    /\ UNCHANGED cvars
    /\ IF ok
       THEN /\ call' = [call EXCEPT ![c].pc = "returned"]
            /\ UNCHANGED log
       ELSE /\ call' = [call EXCEPT ![c] = OuterCatch(@, ReplyError(c, Len(replies[c])))]
            /\ log' = [log EXCEPT ![c] = Append(@, Logged("send", ReplyError(c, Len(replies[c])), -1))]
    /\ UNCHANGED <<qvars, fvars, replies, sends>>

\* ------------------------------------------------------------ time
TimedLoops == {l \in Loops : loop[l].pc \in {"delay", "backoff", "throttle"}}
TimedCalls == {c \in Calls : call[c].pc \in {"warmup", "retry_wait", "group_delay"}}
\* the timers that are running
Timers == {loop[l].timer : l \in TimedLoops} \cup {call[c].timer : c \in TimedCalls}
\* an external call (a task, sendMediaGroup, ctx.reply) has not returned yet
InFlight == \/ \E l \in Loops : loop[l].pc \in {"send", "run"}
            \/ \E c \in Calls : call[c].pc \in {"reply_progress", "reply_failure", "reply_summary"}

\* Date.now() - item.startTime grows for the items the queue still holds
Age(its, q, d) == [t \in DOMAIN its |->
                     IF t \in InQueue(q) THEN [its[t] EXCEPT !.elapsed = Sat(@ + d)]
                     ELSE its[t]]

\* time passes: up to the next timer, or a slow external call when no timer runs
Tick ==
    /\ ~Reaction
    /\ 0 \notin Timers
    /\ Timers # {} \/ InFlight
    /\ LET d == IF Timers # {} THEN Min(Timers) ELSE SlowCall IN
       /\ items' = Age(items, queue, d)
       /\ loop' = [l \in Loops |-> IF l \in TimedLoops
                                   THEN [loop[l] EXCEPT !.timer = @ - d] ELSE loop[l]]
       /\ call' = [c \in Calls |-> IF c \in TimedCalls
                                   THEN [call[c] EXCEPT !.timer = @ - d] ELSE call[c]]
    /\ sinceEnd' = IF sinceEnd = -1 THEN -1
                   ELSE Min({interval, sinceEnd + (IF Timers # {} THEN Min(Timers) ELSE SlowCall)})
    /\ UNCHANGED <<interval, queue, processing, promise, hist, addOrder, firstOrder,
                   fvars, cvars, replies, log, sends>>

NoCall == [pc |-> "unused", i |-> 0, retryCount |-> 0, backoffTime |-> 0,
           successCount |-> 0, failedFiles |-> <<>>, timer |-> 0, error |-> NoError]
NewCall == [NoCall EXCEPT !.pc = "init"]

\* ------------------------------------------------------------ SpecQ
\* A RateLimiter on its own, with tasks submitted directly (as the test does).
InitQ ==
    /\ interval \in Intervals
    /\ queue = <<>>
    /\ items = <<>>
    /\ processing = FALSE
    /\ loop = [l \in Loops |-> IdleLoop]
    /\ promise = <<>>
    /\ hist = <<>>
    /\ addOrder = <<>>
    /\ firstOrder = <<>>
    /\ sinceEnd = -1
    /\ files = [c \in Calls |-> <<>>]
    /\ call = [c \in Calls |-> NoCall]
    /\ initial = {}
    /\ exists = {}
    /\ locked = {}
    /\ unlinks = <<>>
    /\ unlinkMissing = {}
    /\ replies = [c \in Calls |-> <<>>]
    /\ log = [c \in Calls |-> <<>>]
    /\ sends = [c \in Calls |-> <<>>]

\* a producer calls add(task): tasks are numbered in the order they are submitted
Add(t) ==
    /\ t \notin DOMAIN promise
    /\ \A u \in DirectTasks : u.n < t.n => u \in DOMAIN promise
    /\ AddTask(t)
    /\ UNCHANGED <<pvars, sends>>

NextQ ==
    \/ \E t \in DirectTasks : Add(t)
    \/ \E l \in Loops, j \in Jitters : TaskReturn(l, j)
    \/ \E l \in Loops, j \in Jitters : TaskRaise(l, j)
    \/ \E l \in Loops, j \in Jitters : BackoffDone(l, j)
    \/ \E l \in Loops : ThrottleDone(l)
    \/ Tick

SpecQ == InitQ /\ [][NextQ]_vars

\* ------------------------------------------------------------ LiveQ
\* The RateLimiter of SpecQ with what the event loop and the collaborators
\* guarantee: a timer that is due fires, time passes, and a task that was
\* invoked returns or raises. Nothing obliges a producer to call add().
\* The jitter only lengthens the wait of line 80; it is taken at its least value.
StepQ ==
    \/ \E l \in Loops : TaskReturn(l, 0)
    \/ \E l \in Loops : TaskRaise(l, 0)
    \/ \E l \in Loops : BackoffDone(l, 0)
    \/ \E l \in Loops : ThrottleDone(l)
    \/ Tick

NextLiveQ ==
    \/ \E t \in DirectTasks : Add(t)
    \/ StepQ

LiveQ == InitQ /\ [][NextLiveQ]_vars /\ WF_vars(StepQ)

\* ------------------------------------------------------------ Spec
\* Calls of sendFilesInGroups sharing the module-level rateLimiter (line 86).
Plain(n) == [j \in 1..n |-> j]
WithNull(n, k) == [j \in 1..n |-> IF j = k THEN 0 ELSE j]

AllPaths(fl) == UNION {PathsOf(c, fl[c]) : c \in Calls}

\* the inputs: the file lists of the calls, the paths that are already gone
\* when the call is made, the paths whose deletion raises
Input(f1, f2, used, missing, lck) ==
    [files |-> [c \in Calls |-> IF c = 1 THEN f1 ELSE IF c = 2 THEN f2 ELSE <<>>],
     used |-> used, missing |-> missing, locked |-> lck]

Inputs ==
    { Input(<<>>, <<>>, {1}, {}, {}),
      Input(Plain(1), <<>>, {1}, {}, {}),
      Input(Plain(25), <<>>, {1}, {}, {}),
      Input(Plain(31), <<>>, {1}, {}, {}),
      Input(Plain(11), <<>>, {1}, {Path(1, 1)}, {Path(1, 2), Path(1, 11)}),
      Input(WithNull(11, 2), <<>>, {1}, {}, {}),
      Input(Plain(11), Plain(1), {1, 2}, {}, {}) }

Init ==
    /\ interval = Ms(3000)
    /\ queue = <<>>
    /\ items = <<>>
    /\ processing = FALSE
    /\ loop = [l \in Loops |-> IdleLoop]
    /\ promise = <<>>
    /\ hist = <<>>
    /\ addOrder = <<>>
    /\ firstOrder = <<>>
    /\ sinceEnd = -1
    /\ \E inp \in Inputs :
         /\ files = inp.files
         /\ call = [c \in Calls |-> IF c \in inp.used THEN NewCall ELSE NoCall]
         /\ initial = AllPaths(inp.files) \ inp.missing
         /\ exists = AllPaths(inp.files) \ inp.missing
         /\ locked = inp.locked
         /\ unlinks = [p \in AllPaths(inp.files) |-> 0]
    /\ unlinkMissing = {}
    /\ replies = [c \in Calls |-> <<>>]
    /\ log = [c \in Calls |-> <<>>]
    /\ sends = [c \in Calls |-> [g \in 1..NumGroups(Len(files[c])) |-> [invoked |-> 0, ok |-> 0, failed |-> 0]]]

Next ==
    \/ \E c \in Calls : Start(c)
    \/ \E c \in Calls : WarmupDone(c)
    \/ \E c \in Calls : AddResolved(c)
    \/ \E c \in Calls, j \in Jitters : AddRejected(c, j)
    \/ \E c \in Calls : RetryWaitDone(c)
    \/ \E c \in Calls, ok \in BOOLEAN : ReplyDone(c, ok)
    \/ \E c \in Calls : GroupDelayDone(c)
    \/ \E c \in Calls, ok \in BOOLEAN : SummaryDone(c, ok)
    \/ \E l \in Loops : TaskDelayDone(l)
    \/ \E l \in Loops, j \in Jitters : TaskReturn(l, j)
    \/ \E l \in Loops, j \in Jitters : TaskRaise(l, j)
    \/ \E l \in Loops, j \in Jitters : BackoffDone(l, j)
    \/ \E l \in Loops : ThrottleDone(l)
    \/ Tick

Spec == Init /\ [][Next]_vars

\* ------------------------------------------------------------ Live
\* The calls of Spec with what the event loop and the collaborators guarantee:
\* a job that is ready runs, a timer that is due fires, time passes, and a
\* call of sendMediaGroup or ctx.reply returns or raises. The jitters only
\* lengthen waits; they are taken at their least value.
NextLive ==
    \/ \E c \in Calls : Start(c)
    \/ \E c \in Calls : WarmupDone(c)
    \/ \E c \in Calls : AddResolved(c)
    \/ \E c \in Calls : AddRejected(c, 0)
    \/ \E c \in Calls : RetryWaitDone(c)
    \/ \E c \in Calls, ok \in BOOLEAN : ReplyDone(c, ok)
    \/ \E c \in Calls : GroupDelayDone(c)
    \/ \E c \in Calls, ok \in BOOLEAN : SummaryDone(c, ok)
    \/ \E l \in Loops : TaskDelayDone(l)
    \/ \E l \in Loops : TaskReturn(l, 0)
    \/ \E l \in Loops : TaskRaise(l, 0)
    \/ \E l \in Loops : BackoffDone(l, 0)
    \/ \E l \in Loops : ThrottleDone(l)
    \/ Tick

Live == Init /\ [][NextLive]_vars /\ WF_vars(NextLive)

\* ------------------------------------------------------------ properties
Done(c) == call[c].pc \in {"returned", "thrown"}
Pos(q, t) == CHOOSE k \in 1..Len(q) : q[k] = t
Task(k) == [call |-> 0, grp |-> 0, n |-> k]

\* C1: at most one activation of process() is inside a task at any time, so at
\* most one sendMediaGroup call is in flight, however the calls of
\* sendFilesInGroups overlap.
C1_MutualExclusion ==
    /\ Cardinality({l \in Loops : Running(l)}) <= 1
    /\ Cardinality({l \in Loops : loop[l].pc = "send"}) <= 1

\* a send of one call is in flight while the send of another call waits in the queue
C1_Witness ==
    \E l \in Loops : /\ loop[l].pc = "send"
                     /\ \E k \in 1..Len(queue) : queue[k].call # loop[l].item.call

\* C2 (as claimed): a call on a non-empty list that returns an outcome has
\* successCount + failedFiles.length = files.length.
C2_SumIsInputLength ==
    \A c \in Calls :
        call[c].pc = "returned" /\ Len(files[c]) > 0
        => call[c].successCount + Len(call[c].failedFiles) = Len(files[c])

\* C3 (as claimed): when a call is over no input file exists any more, each
\* file that existed was unlinked exactly once, and unlink was never called on
\* a missing path.
C3_AllFilesGone ==
    \A c \in Calls :
        call[c].pc = "returned"
                => /\ PathsOf(c, files[c]) \cap exists = {}
                   /\ \A p \in PathsOf(c, files[c]) :
                        unlinks[p] = IF p \in initial THEN 1 ELSE 0
                   /\ unlinkMissing = {}

\* C3 (amended): when a call is over, the only input files that still exist are
\* those whose deletion raised; unlink was called exactly once on each file
\* that existed and never on a path that does not exist.
C3_Cleanup ==
    /\ unlinkMissing = {}
    /\ \A c \in Calls :
        Done(c) => /\ PathsOf(c, files[c]) \cap exists = PathsOf(c, files[c]) \cap initial \cap locked
                   /\ \A p \in PathsOf(c, files[c]) :
                        unlinks[p] = IF p \in initial THEN 1 ELSE 0

\* a call is over whose list had a file that was already gone and a file
\* whose deletion raised
C3_Witness ==
    \E c \in Calls :
        /\ Done(c)
        /\ PathsOf(c, files[c]) \ initial # {}
        /\ PathsOf(c, files[c]) \cap exists # {}
        /\ \E p \in PathsOf(c, files[c]) : unlinks[p] = 1 /\ p \notin exists

\* C4: a task that succeeds on its first attempt has its promise resolved with
\* the result of that attempt, its retry counter is 0 at that moment, and the
\* item has left the queue.
C4_FirstAttemptSuccess ==
    \A t \in DOMAIN promise :
        promise[t].state = "resolved" /\ hist[t].fails = 0
        => /\ promise[t].value = Result(t, 1)
           /\ promise[t].retries = 0
           /\ promise[t].settles = 1
           /\ t \notin InQueue(queue)

\* a first-attempt success while another item was waiting behind it
C4_Witness ==
    \E t \in DOMAIN promise :
        /\ promise[t].state = "resolved"
        /\ hist[t].fails = 0
        /\ queue # <<>>

\* C5 (as claimed): a promise is rejected only after 5 failed attempts, and a
\* promise resolved after k failures was retried exactly k times.
C5_ResolvedUnlessFiveFailures ==
    \A t \in DOMAIN promise :
        /\ promise[t].state = "rejected" => hist[t].fails >= maxRetries
        /\ promise[t].state = "resolved" => promise[t].retries = hist[t].fails

\* C5 (amended): a promise is rejected only after 5 failed attempts or after a
\* failure that came later than the timeout after enqueue; a promise resolved
\* after k failures was retried exactly k times, k < 5.
C5_ResolvedUnlessExhausted ==
    \A t \in DOMAIN promise :
        /\ promise[t].state = "rejected" => hist[t].fails >= maxRetries \/ hist[t].late
        /\ promise[t].state = "resolved" => /\ promise[t].retries = hist[t].fails
                                            /\ hist[t].fails < maxRetries
                                            /\ ~hist[t].late

\* a task resolved after four failures
C5_Witness ==
    \E t \in DOMAIN promise :
        promise[t].state = "resolved" /\ hist[t].fails = maxRetries - 1

\* C6: once a task has failed 5 times, or has failed later than the timeout
\* after enqueue, its promise is rejected with the error of its last attempt
\* and the item is out of the queue.
C6_RejectedWithLastError ==
    \A t \in DOMAIN promise :
        /\ hist[t].fails >= maxRetries \/ hist[t].late
           => /\ promise[t].state = "rejected"
              /\ promise[t].value = Error(t, hist[t].fails)
              /\ promise[t].settles = 1
              /\ t \notin InQueue(queue)
        /\ promise[t].state = "rejected" => hist[t].attempts = hist[t].fails

\* a task rejected at its fifth failure, none of its failures being late
C6_Witness ==
    \E t \in DOMAIN promise :
        /\ promise[t].state = "rejected"
        /\ hist[t].fails = maxRetries
        /\ ~hist[t].late

\* C7: first attempts are made in the order of submission.
C7_Fifo ==
    /\ Len(firstOrder) <= Len(addOrder)
    /\ firstOrder = SubSeq(addOrder, 1, Len(firstOrder))

\* three tasks had their first attempt, the later two having been submitted
\* while the first was still queued after a failure
C7_Witness ==
    /\ Len(firstOrder) = 3
    /\ hist[Task(1)].fails > 0
    /\ promise[Task(1)].state = "pending"

\* C8: an item that failed and was re-enqueued stands behind every item that
\* was pending at that moment, and it is not attempted again before each of
\* them has had an attempt.
C8_RetryAtTail ==
    \A x \in DOMAIN hist :
        /\ \A u \in hist[x].owed :
              /\ u \in InQueue(queue)
              /\ x \in InQueue(queue)
              /\ Pos(queue, u) < Pos(queue, x)
        /\ (\E l \in Loops : Running(l) /\ loop[l].item = x) => hist[x].owed = {}

\* an item is attempted again after two other items, pending when it failed,
\* have both been attempted
C8_Witness ==
    \E l \in Loops :
        /\ Running(l)
        /\ loop[l].item = Task(1)
        /\ hist[Task(1)].attempts >= 2
        /\ {Task(2), Task(3)} \subseteq InQueue(queue)
        /\ hist[Task(2)].fails >= 1
        /\ hist[Task(3)].fails >= 1

\* the k-th group of call c
GroupK(c, k) == Group(c, (k - 1) * groupSize)
\* groups for which a sendMediaGroup call returned
SentGroups(c) == {k \in DOMAIN sends[c] : sends[c][k].ok >= 1}
\* groups whose per-group retries ran out (the failure notification names them)
GivenUpGroups(c) == {k \in DOMAIN sends[c] :
                       \E m \in 1..Len(replies[c]) : replies[c][m] = FailureText(k)}

RECURSIVE FilesIn(_, _, _)
FilesIn(c, S, k) ==
    IF k > NumGroups(Len(files[c])) THEN <<>>
    ELSE (IF k \in S THEN GroupK(c, k) ELSE <<>>) \o FilesIn(c, S, k + 1)

Processed(c, k) ==
    /\ BuildFails(GroupK(c, k)) \/ sends[c][k].invoked >= 1
    /\ PathsOf(c, GroupK(c, k)) \cap exists \subseteq locked

\* C10: whatever was raised for a group (building it, sending it, notifying
\* about it), the call goes on: it ends only after every group has been
\* processed, and every group before the current one has been processed.
C10_GroupErrorsIsolated ==
    \A c \in Calls :
        /\ call[c].pc \in {"reply_summary", "returned", "thrown"}
           => \A k \in 1..NumGroups(Len(files[c])) : Processed(c, k)
        /\ call[c].pc \notin {"unused", "init", "warmup"}
           => /\ \A k \in 1..NumGroups(Len(files[c])) : k < Ordinal(call[c].i) => Processed(c, k)
              /\ call[c].pc = "group_delay" => Processed(c, Ordinal(call[c].i))

\* a call returned although its first group was given up and the failure
\* notification for it raised, and its second group was sent
C10_Witness ==
    \E c \in Calls :
        /\ call[c].pc = "returned"
        /\ 1 \in GivenUpGroups(c)
        /\ Len(call[c].failedFiles) > Len(GroupK(c, 1))
        /\ 2 \in SentGroups(c)

\* the tasks a call has in the rate limiter
TasksOf(c) == {t \in DOMAIN promise : t.call = c} \cup {t \in InQueue(queue) : t.call = c}
\* the notifications of one kind a call has emitted
Emitted(c, kind) == SelectSeq(replies[c], LAMBDA r : r.kind = kind)
\* the body of the function has been left: the summary was emitted
AtSummary(c) == call[c].pc \in {"reply_summary", "returned", "thrown"}

\* C11: a call on an empty list never submits a task, emits no progress or
\* failure notification, emits the summary once (0 sent, 0 failed, 0 groups, no
\* hint) and returns successCount 0 with an empty failedFiles.
C11_EmptyList ==
    \A c \in Calls :
        call[c].pc # "unused" /\ files[c] = <<>>
        => /\ TasksOf(c) = {}
           /\ \A l \in Loops : loop[l].item.call # c
           /\ Emitted(c, "progress") = <<>>
           /\ Emitted(c, "failure") = <<>>
           /\ replies[c] = IF AtSummary(c)
                           THEN <<[kind |-> "summary", a |-> 0, b |-> 0, groups |-> 0,
                                   hint |-> FALSE]>>
                           ELSE <<>>
           /\ call[c].pc = "returned" => call[c].successCount = 0 /\ call[c].failedFiles = <<>>

\* a call on an empty list returned
C11_Witness ==
    \E c \in Calls : files[c] = <<>> /\ call[c].pc = "returned"

\* group k of call c was sent, or was recorded as failed
Settled(c, k) == \/ k \in SentGroups(c)
                 \/ k \in GivenUpGroups(c)
                 \/ BuildFails(GroupK(c, k))

\* C12: a call emits the summary once, as its last notification, after every
\* group has been sent or has failed and has been cleaned up and with nothing
\* of the call left in the rate limiter; the summary reports the final
\* successCount, the length of failedFiles and ceil(files.length / 10), and has
\* the retry hint exactly when failedFiles is not empty.
C12_SummaryOnce ==
    \A c \in Calls :
        LET n == Len(files[c])
            m == Len(replies[c])
        IN  /\ Len(Emitted(c, "summary")) = IF AtSummary(c) THEN 1 ELSE 0
            /\ AtSummary(c)
               => /\ replies[c][m].kind = "summary"
                  /\ replies[c][m].a = call[c].successCount
                  /\ replies[c][m].b = Len(call[c].failedFiles)
                  /\ replies[c][m].groups * 10 >= n
                  /\ (replies[c][m].groups - 1) * 10 < n
                  /\ replies[c][m].hint <=> call[c].failedFiles # <<>>
                  /\ \A k \in 1..NumGroups(n) : Settled(c, k) /\ Processed(c, k)
                  /\ TasksOf(c) = {}

\* a call returned after one group was sent and another was given up: its
\* summary has the retry hint
C12_Witness ==
    \E c \in Calls :
        /\ call[c].pc = "returned"
        /\ SentGroups(c) # {}
        /\ GivenUpGroups(c) # {}
        /\ replies[c][Len(replies[c])].hint

\* C13 (as claimed): when the summary notification raises, the call rejects
\* with that error, and no input file exists any more.
C13_AllGoneWhenThrown ==
    \A c \in Calls :
        call[c].pc = "thrown"
        => /\ call[c].error = ReplyError(c, Len(replies[c]))
           /\ PathsOf(c, files[c]) \cap exists = {}

\* a summary notification was emitted and its ctx.reply is over, the last
\* console.error line being 'Send files error:' exactly when it raised
SummaryRaised(c) ==
    /\ call[c].pc \in {"returned", "thrown"}
    /\ log[c] # <<>>
    /\ log[c][Len(log[c])].tag = "send"

\* C13 (amended): when the summary notification raises, the call rejects with
\* that same error and returns no outcome; the cleanup of every group has run
\* by then, so the only input files that still exist are those whose deletion
\* raised.
C13_StructuralFailure ==
    \A c \in Calls :
        /\ SummaryRaised(c) => call[c].pc = "thrown"
        /\ call[c].pc = "thrown"
           => /\ replies[c][Len(replies[c])].kind = "summary"
              /\ call[c].error = ReplyError(c, Len(replies[c]))
              /\ log[c][Len(log[c])] = Logged("send", call[c].error, -1)
              /\ \A k \in 1..NumGroups(Len(files[c])) : Processed(c, k)
              /\ unlinkMissing = {}
              /\ PathsOf(c, files[c]) \cap exists = PathsOf(c, files[c]) \cap initial \cap locked
        /\ call[c].pc # "thrown" => call[c].error = NoError

\* a call rejected by its summary notification after a group was sent and a
\* group was given up
C13_Witness ==
    \E c \in Calls :
        /\ call[c].pc = "thrown"
        /\ SentGroups(c) # {}
        /\ GivenUpGroups(c) # {}

\* every promise add() returned is settled, the queue is empty and the loop
\* has stopped
Drained ==
    /\ \A t \in DOMAIN promise : promise[t].state # "pending"
    /\ queue = <<>>
    /\ ~processing

\* C14: under LiveQ, whatever was added, the queue is drained again and again
\* (for good once the producers stop): every promise add() returned is
\* eventually settled, the queue empty and processing false. A promise is
\* settled once and keeps its state and value from then on.
C14_QueueLiveness ==
    /\ []<>Drained
    /\ [](\A t \in DOMAIN promise :
            promise[t].settles = IF promise[t].state = "pending" THEN 0 ELSE 1)
    /\ [][\A t \in DOMAIN promise :
            promise[t].state # "pending" => t \in DOMAIN promise' /\ promise'[t] = promise[t]]_vars

\* three promises are settled, one of them rejected and one resolved after a
\* failure, and the loop has stopped
C14_Witness ==
    /\ DOMAIN promise = DirectTasks
    /\ \A t \in DirectTasks : promise[t].state # "pending"
    /\ \E t \in DirectTasks : promise[t].state = "rejected"
    /\ \E t \in DirectTasks : promise[t].state = "resolved" /\ hist[t].fails > 0
    /\ queue = <<>>
    /\ ~processing

\* C15: under Live every call that was made is eventually over, having
\* returned an outcome or thrown one error, and stays as it ended.
C15_Termination ==
    /\ <>[](\A c \in Calls : call[c].pc = "unused" \/ Done(c))
    /\ [][\A c \in Calls : Done(c) => call'[c] = call[c]]_vars
    /\ [](\A c \in Calls : /\ call[c].pc = "thrown" <=> call[c].error # NoError
                            /\ call[c].pc = "returned" => call[c].error = NoError)

\* a call returned although every send of its only group raised
C15_Witness ==
    \E c \in Calls :
        /\ call[c].pc = "returned"
        /\ SentGroups(c) = {}
        /\ GivenUpGroups(c) = {1}
        /\ sends[c][1].failed >= maxRetriesGroup

\* the least number of groups of at most 10 that hold n files
GroupsFor(n) == CHOOSE g \in 0..n : g * 10 >= n /\ (g - 1) * 10 < n
\* the groups from the k-th to the last-th of call c, one after the other
RECURSIVE JoinGroups(_, _, _)
JoinGroups(c, k, last) ==
    IF k > last THEN <<>> ELSE Group(c, (k - 1) * 10) \o JoinGroups(c, k + 1, last)
\* the call is inside the body of the for loop
InGroup(c) == call[c].pc \in {"await_add", "retry_wait", "reply_progress",
                              "reply_failure", "group_delay"}

\* C16: the groups a call forms are ceil(n/10) consecutive slices that, put one
\* after the other, give the input list again; all have 10 files except the
\* last, which has 1 to 10. The loop visits them in order: its index is a
\* multiple of 10 inside the list, and past the last group at the summary.
C16_Partition ==
    \A c \in Calls :
        LET n == Len(files[c])
            G == GroupsFor(n)
        IN  call[c].pc # "unused"
            => /\ JoinGroups(c, 1, G) = files[c]
               /\ \A k \in 1..G : /\ k < G => Len(Group(c, (k - 1) * 10)) = 10
                                   /\ Len(Group(c, (k - 1) * 10)) \in 1..10
               /\ InGroup(c) => /\ call[c].i % 10 = 0
                                /\ call[c].i \div 10 < G
                                /\ DOMAIN sends[c] = 1..G
               /\ AtSummary(c) => call[c].i = G * 10

\* a call on 25 files is sending its third group, of 5 files
C16_Witness ==
    \E c \in Calls, l \in Loops :
        /\ Len(files[c]) = 25
        /\ call[c].pc = "await_add"
        /\ call[c].i = 20
        /\ Len(Group(c, call[c].i)) = 5
        /\ loop[l].pc = "send"
        /\ loop[l].item.call = c

\* the finally block of group k of call c has run
CleanedUp(c, k) ==
    \/ AtSummary(c)
    \/ InGroup(c) /\ k < Ordinal(call[c].i)
    \/ call[c].pc = "group_delay" /\ k = Ordinal(call[c].i)
\* the group-level catch ran for group k of call c
Caught(c, k) == \E m \in 1..Len(log[c]) : log[c][m].tag = "group" /\ log[c][m].i = (k - 1) * 10
\* what the sends and the notifications alone put into failedFiles, from
\* group k on: a group that was given up, a group for which something raised
RECURSIVE FailedFrom(_, _)
FailedFrom(c, k) ==
    IF k > NumGroups(Len(files[c])) THEN <<>>
    ELSE (IF k \in GivenUpGroups(c) THEN GroupK(c, k) ELSE <<>>)
         \o (IF Caught(c, k) THEN GroupK(c, k) ELSE <<>>)
         \o FailedFrom(c, k + 1)

\* C17: an error of fs.unlinkSync is only ever logged as a cleanup error: it
\* reaches neither the group-level catch nor the caller. Once the cleanup of a
\* group has run, every file of the group is gone except those whose deletion
\* raised, each of which has its log line. The call still goes through every
\* group, and its outcome is what the sends and notifications alone determine.
C17_CleanupErrorsSwallowed ==
    \A c \in Calls :
        /\ call[c].error.kind # "unlink"
        /\ \A m \in 1..Len(log[c]) :
              log[c][m].error.kind = "unlink" => log[c][m].tag = "cleanup"
        /\ \A k \in 1..NumGroups(Len(files[c])) :
              CleanedUp(c, k)
              => LET P == PathsOf(c, GroupK(c, k)) IN
                 /\ P \cap exists = P \cap initial \cap locked
                 /\ \A f \in 1..Len(files[c]) :
                       Path(c, f) \in P
                       => Cardinality({m \in 1..Len(log[c]) :
                                         log[c][m].error = UnlinkError(c, f)})
                          = IF Path(c, f) \in initial \cap locked THEN 1 ELSE 0
        /\ AtSummary(c) => \A k \in 1..NumGroups(Len(files[c])) : Settled(c, k)
        /\ call[c].pc = "returned"
           => /\ call[c].successCount = Len(FilesIn(c, SentGroups(c), 1))
              /\ call[c].failedFiles = FailedFrom(c, 1)

\* a call returned with both groups sent and nothing failed, although the
\* deletion of a file raised in each group; later files of the first group
\* are gone
C17_Witness ==
    \E c \in Calls :
        /\ call[c].pc = "returned"
        /\ SentGroups(c) = {1, 2}
        /\ call[c].failedFiles = <<>>
        /\ {Path(c, 2), Path(c, 11)} \subseteq exists
        /\ Path(c, 3) \in initial \ exists

\* fs.unlinkSync has been called on a file of group k of call c
Unlinking(c, k) == \E p \in PathsOf(c, GroupK(c, k)) : unlinks[p] > 0
\* a send task of group k of call c is queued, or is being attempted
SendPending(c, k) ==
    \/ \E t \in InQueue(queue) : t.call = c /\ t.grp = k
    \/ \E l \in Loops : Running(l) /\ loop[l].item.call = c /\ loop[l].item.grp = k

\* C18: once a file of a group has been deleted, no send task of that group is
\* queued or in flight, and sendMediaGroup is never invoked for that group
\* again.
C18_CleanupAfterSend ==
    /\ [](\A c \in Calls : \A k \in DOMAIN sends[c] : Unlinking(c, k) => ~SendPending(c, k))
    /\ [][\A c \in Calls : \A k \in DOMAIN sends[c] :
            Unlinking(c, k) => sends'[c][k].invoked = sends[c][k].invoked]_vars

\* the files of a group that was sent at its second invocation have been
\* deleted while the send of another call is in flight
C18_Witness ==
    \E c \in Calls, l \in Loops : \E k \in DOMAIN sends[c] :
        /\ Unlinking(c, k)
        /\ sends[c][k].invoked >= 2
        /\ sends[c][k].ok = 1
        /\ loop[l].pc = "send"
        /\ loop[l].item.call # c

\* C19 (as claimed): from its second retry on, the backoff of each retry of an
\* item is exactly 1.5 times the backoff of its previous retry, and larger.
C19_BackoffTimesOneAndAHalf ==
    \A t \in DOMAIN hist :
        hist[t].prev # 0 => /\ 2 * hist[t].last = 3 * hist[t].prev
                            /\ hist[t].last > hist[t].prev

\* C19 (amended): the backoff of an item's first retry is 1.5 times the base
\* interval; the backoff of each later retry is exactly 1.5 times that of the
\* item's previous retry, and so larger, unless in between a successful
\* attempt of another item left the item at the front of the queue: then it
\* is 1.5 times the base interval again.
C19_BackoffGrowth ==
    \A t \in DOMAIN hist :
        /\ hist[t].last # 0 /\ hist[t].prev = 0 => 2 * hist[t].last = 3 * interval
        /\ hist[t].prev # 0 /\ ~hist[t].reset => /\ 2 * hist[t].last = 3 * hist[t].prev
                                                  /\ hist[t].last > hist[t].prev
        /\ hist[t].prev # 0 /\ hist[t].reset => 2 * hist[t].last = 3 * interval
        /\ \A l \in Loops : loop[l].pc = "backoff" /\ loop[l].item = t
                              => loop[l].timer <= hist[t].last

\* an item is in the wait of its third retry while another item is queued, none
\* of its backoffs having been reset
C19_Witness ==
    \E l \in Loops :
        /\ loop[l].pc = "backoff"
        /\ hist[loop[l].item].fails = 3
        /\ ~hist[loop[l].item].reset
        /\ 8 * hist[loop[l].item].last = 27 * interval
        /\ Len(queue) >= 2

\* C20: in the step that resolves the promise of an item, that item is the
\* front of the queue and is removed; if an item is then at the front its
\* backoff becomes the base interval, its retry counter and the time since it
\* was enqueued stay as they were, and every other item stays as it was.
C20_SuccessFrame ==
    [][\A t \in DOMAIN promise :
          promise[t].state = "pending" /\ promise'[t].state = "resolved"
          => /\ queue # <<>>
             /\ queue[1] = t
             /\ queue' = Tail(queue)
             /\ DOMAIN items' = DOMAIN items
             /\ \A u \in DOMAIN items :
                   IF queue' # <<>> /\ u = queue'[1]
                   THEN /\ items'[u].backoffTime = interval
                        /\ items'[u].retries = items[u].retries
                        /\ items'[u].elapsed = items[u].elapsed
                   ELSE items'[u] = items[u]
             /\ interval' = interval]_vars

\* an item has just succeeded; the item now at the front had failed before and
\* has the base interval as its backoff, the item behind it keeps a larger one
C20_Witness ==
    \E l \in Loops :
        /\ loop[l].pc = "throttle"
        /\ promise[loop[l].item].state = "resolved"
        /\ Len(queue) >= 2
        /\ items[queue[1]].retries >= 1
        /\ hist[queue[1]].last > interval
        /\ items[queue[1]].backoffTime = interval
        /\ items[queue[2]].backoffTime > interval

\* an attempt starts in this step: the number of attempts of a task goes up
AttemptStarts ==
    \E t \in DOMAIN hist' :
        hist'[t].attempts > IF t \in DOMAIN hist THEN hist[t].attempts ELSE 0

\* C21: when an attempt starts, either no attempt has ended yet or at least the
\* base interval has passed since the end of the last one; and while less
\* than that has passed the loop holds the flag, so that add() starts nothing.
C21_Throttle ==
    /\ [][AttemptStarts => sinceEnd = -1 \/ sinceEnd >= interval]_vars
    /\ [](sinceEnd # -1 /\ sinceEnd < interval => processing)

\* the queue had drained; a task was added during the wait that follows the
\* last attempt and waits for its first attempt
C21_Witness ==
    \E l \in Loops :
        /\ loop[l].pc = "throttle"
        /\ loop[l].timer > 0
        /\ promise[loop[l].item].state = "resolved"
        /\ sinceEnd < interval
        /\ Len(queue) = 1
        /\ hist[queue[1]].attempts = 0

\* C22: in the step in which an attempt of an item fails, if more than the
\* timeout has passed since the item was enqueued the promise is rejected and
\* the item leaves the queue, whatever its retry counter; if at most the
\* timeout has passed and the counter stays below 5 the item goes to the tail of
\* the queue with its promise pending.
C22_TimeoutFromEnqueue ==
    [][\A t \in DOMAIN hist :
          t \in DOMAIN hist' /\ hist'[t].fails = hist[t].fails + 1
          => /\ items[t].elapsed > Ms(timeout)
                => /\ promise'[t].state = "rejected"
                   /\ t \notin InQueue(queue')
             /\ items[t].elapsed <= Ms(timeout) /\ items[t].retries + 1 < maxRetries
                => /\ promise'[t].state = "pending"
                   /\ queue' # <<>>
                   /\ queue'[Len(queue')] = t
                   /\ items'[t].retries = items[t].retries + 1]_vars

\* an item was rejected at its first failure, having waited behind an item
\* that was retried
C22_Witness ==
    /\ Task(2) \in DOMAIN promise
    /\ promise[Task(2)].state = "rejected"
    /\ hist[Task(2)].fails = 1
    /\ items[Task(2)].retries = 1
    /\ hist[Task(1)].fails >= 1

\* C23: the task of an item is invoked at most 5 times; the retry counter of a
\* queued item is between 0 and 4; an item whose counter is 5 has its promise
\* rejected and is out of the queue.
C23_AttemptBound ==
    /\ \A t \in DOMAIN hist : hist[t].attempts <= 5
    /\ \A t \in InQueue(queue) : items[t].retries \in 0..4
    /\ \A t \in DOMAIN items :
          /\ items[t].retries <= 5
          /\ items[t].retries = 5 => promise[t].state = "rejected" /\ t \notin InQueue(queue)

\* an item was rejected after its fifth invocation while another item is
\* queued
C23_Witness ==
    \E t \in DOMAIN hist :
        /\ hist[t].attempts = 5
        /\ items[t].retries = 5
        /\ promise[t].state = "rejected"
        /\ queue # <<>>

\* the bookkeeping of lines 128-136 has run for group k of call c
Booked(c, k) ==
    \/ CleanedUp(c, k)
    \/ call[c].pc \in {"reply_progress", "reply_failure"} /\ k = Ordinal(call[c].i)
\* the files sent by call c in its groups up to the k-th
CumSent(c, k) == Len(FilesIn(c, {j \in SentGroups(c) : j <= k}, 1))
\* the groups after whose send a progress notification is due
ProgressGroups(c) ==
    {k \in SentGroups(c) : /\ Booked(c, k)
                           /\ \/ CumSent(c, k) % 30 = 0
                              \/ k = GroupsFor(Len(files[c]))}

\* C24: the progress notifications of a call are exactly one for each group
\* that was sent and after which the count of files sent is a multiple of 30 or
\* which is the last group, each telling that count and the number of files, in
\* the order of the groups; a group that was not sent gets none.
C24_ProgressNotifications ==
    \A c \in Calls :
        LET P == Emitted(c, "progress") IN
        /\ Len(P) = Cardinality(ProgressGroups(c))
        /\ \A k \in ProgressGroups(c) :
              \E m \in 1..Len(P) : P[m].a = CumSent(c, k) /\ P[m].b = Len(files[c])
        /\ \A m \in 1..Len(P) :
              /\ \E k \in ProgressGroups(c) : P[m].a = CumSent(c, k)
              /\ m > 1 => P[m - 1].a < P[m].a

\* a call on 31 files returned with progress reported after the third group
\* (30 files) and after the last, and not after the first two
C24_Witness ==
    \E c \in Calls :
        /\ Len(files[c]) = 31
        /\ call[c].pc = "returned"
        /\ SentGroups(c) = 1..4
        /\ Len(Emitted(c, "progress")) = 2
        /\ Emitted(c, "progress")[1].a = 30

\* the groups of call c that were built and whose while loop ended without a
\* send having returned
ExhaustedGroups(c) ==
    {k \in DOMAIN sends[c] : /\ Booked(c, k)
                             /\ ~BuildFails(GroupK(c, k))
                             /\ sends[c][k].ok = 0}

\* C25: the failure notifications of a call are exactly one for each group
\* whose retries were exhausted, naming the group's position counted from 1,
\* in the order of the groups; a group that was sent gets none.
C25_FailureNotifications ==
    \A c \in Calls :
        LET F == Emitted(c, "failure") IN
        /\ Len(F) = Cardinality(ExhaustedGroups(c))
        /\ \A k \in ExhaustedGroups(c) : \E m \in 1..Len(F) : F[m].a = k
        /\ \A m \in 1..Len(F) :
              /\ F[m].a \in ExhaustedGroups(c)
              /\ F[m].a \notin SentGroups(c)
              /\ m > 1 => F[m - 1].a < F[m].a
        /\ SentGroups(c) \cap ExhaustedGroups(c) = {}

\* the first group of a call was sent and its second group was given up: the
\* one failure notification names group 2
C25_Witness ==
    \E c \in Calls :
        /\ 1 \in SentGroups(c)
        /\ 2 \in ExhaustedGroups(c)
        /\ Len(Emitted(c, "failure")) = 1
        /\ Emitted(c, "failure")[1].a = 2
        /\ sends[c][2].failed >= maxRetriesGroup

\* C26: the tasks a call submits for one group are numbered 1 to 5; each is an
\* item of its own, whose retry counter counts its own failures and whose task
\* the queue invokes at most 5 times; so sendMediaGroup is invoked at most 25
\* times for a group, and at least 5 times, always raising, before the group
\* is recorded as failed.
C26_NestedRetryBound ==
    /\ \A t \in DOMAIN hist :
          t.call # 0 => /\ t.n \in 1..5
                        /\ hist[t].attempts <= 5
                        /\ items[t].retries = hist[t].fails
    /\ \A t \in InQueue(queue) : t.call # 0 => t \in DOMAIN hist
    /\ \A c \in Calls :
          /\ call[c].retryCount <= 5
          /\ call[c].pc = "await_add" => call[c].retryCount <= 4
          /\ \A k \in DOMAIN sends[c] :
                /\ sends[c][k].invoked <= 25
                /\ k \in ExhaustedGroups(c)
                   => /\ sends[c][k].invoked >= 5
                      /\ sends[c][k].failed = sends[c][k].invoked

\* the fifth task of a group is in the queue after a failure of its own, the
\* four before it having been rejected
C26_Witness ==
    \E t \in InQueue(queue) :
        /\ t.call # 0
        /\ t.n = 5
        /\ items[t].retries = 1
        /\ sends[t.call][t.grp].failed >= 5

\* the base of the n-th wait of a schedule that starts at 3000 ms and grows by
\* half at every later wait
RECURSIVE ScheduleFrom3000(_)
ScheduleFrom3000(n) == IF n <= 1 THEN Ms(3000) ELSE Backoff(ScheduleFrom3000(n - 1))

\* C27: while a call waits between two attempts of a group, the wait after the
\* first failed attempt is 3000 ms plus a jitter below 1000 ms, and the base
\* of each later wait is 1.5 times the base of the wait before it.
C27_GroupBackoffSchedule ==
    \A c \in Calls :
        call[c].pc = "retry_wait"
        => /\ call[c].backoffTime = ScheduleFrom3000(call[c].retryCount)
           /\ call[c].timer <= call[c].backoffTime + Ms(maxJitter) - 1

\* C28: a call has at most one item in the rate limiter, the one it awaits,
\* which is for its current group; while a send of group k is pending or has
\* been invoked, every group before k has settled and has been cleaned up,
\* and no send of a later group has been submitted.
C28_OneGroupAtATime ==
    \A c \in Calls :
        /\ Cardinality(TasksOf(c)) <= 1
        /\ \A t \in TasksOf(c) :
              /\ call[c].pc = "await_add"
              /\ t = TaskOf(c, call[c])
        /\ \A k \in DOMAIN sends[c] :
              SendPending(c, k) \/ sends[c][k].invoked >= 1
              => /\ \A j \in 1..(k - 1) :
                       /\ Settled(c, j)
                       /\ CleanedUp(c, j)
                       /\ ~SendPending(c, j)
                       /\ PathsOf(c, GroupK(c, j)) \cap exists \subseteq locked
                 /\ \A j \in DOMAIN sends[c] :
                       j > k /\ SendPending(c, k)
                       => ~SendPending(c, j) /\ sends[c][j].invoked = 0

\* the send of the third group of a call is pending, after its first group was
\* sent and its second group was given up, the files of both deleted
C28_Witness ==
    \E c \in Calls :
        /\ SendPending(c, 3)
        /\ 1 \in SentGroups(c)
        /\ 2 \in GivenUpGroups(c)
        /\ (PathsOf(c, GroupK(c, 1)) \cup PathsOf(c, GroupK(c, 2))) \cap exists = {}
        /\ Cardinality(TasksOf(c)) = 1

\* C29: sendMediaGroup returns at most once for a group; it is invoked for a
\* group only while every earlier invocation for that group has raised, so
\* after an invocation that returned it is never invoked for the group again.
C29_NoDuplicateDelivery ==
    /\ [](\A c \in Calls : \A k \in DOMAIN sends[c] :
            /\ sends[c][k].ok <= 1
            /\ sends[c][k].ok = 1 => sends[c][k].invoked = sends[c][k].failed + 1)
    /\ [][\A c \in Calls : \A k \in DOMAIN sends[c] :
            sends'[c][k].invoked # sends[c][k].invoked
            => /\ sends[c][k].ok = 0
               /\ sends[c][k].failed = sends[c][k].invoked]_vars

\* a call has ended whose first group was sent by the second task submitted
\* for it, the first task having been rejected by the queue
C29_Witness ==
    \E c \in Calls :
        /\ Done(c)
        /\ 1 \in DOMAIN sends[c]
        /\ sends[c][1].ok = 1
        /\ sends[c][1].failed >= maxRetries

\* the queued items whose task has not been invoked yet
Unserved == {t \in InQueue(queue) : hist[t].attempts = 0}
\* the activations of process() that have not returned
ActiveLoops == {l \in Loops : loop[l].pc # "idle"}

\* C30: at most one activation of process() is alive; processing is true
\* exactly while one is, and it is false only while the queue is empty, so a
\* non-empty queue always has its loop; and under LiveQ every item that was
\* added is eventually invoked, wherever its add() fell.
C30_NoStrandedWork ==
    /\ [](/\ Cardinality(ActiveLoops) <= 1
          /\ processing <=> ActiveLoops # {}
          /\ queue # <<>> => processing /\ ActiveLoops # {}
          /\ ~processing => queue = <<>>)
    /\ []<>(Unserved = {})

\* an item added during the throttle wait that follows the last attempt of
\* another item waits for the loop that is about to look at the queue
C30_Witness ==
    \E l \in Loops :
        /\ loop[l].pc = "throttle"
        /\ Len(queue) = 1
        /\ queue[1] # loop[l].item
        /\ queue[1] \in Unserved
        /\ processing

\* C31: an item leaves the queue only settled, after at least one invocation
\* of its task; a rejected promise carries the error of a last attempt that
\* raised, a resolved one the result of a last attempt that returned; and an
\* attempt that returns resolves the promise whatever the age of the item.
C31_TimeoutOnlyRejectsFailures ==
    /\ [](\A t \in DOMAIN promise :
            /\ t \notin InQueue(queue)
               => promise[t].state # "pending" /\ hist[t].attempts >= 1
            /\ promise[t].state = "rejected"
               => /\ hist[t].fails = hist[t].attempts
                  /\ hist[t].fails >= 1
                  /\ promise[t].value = Error(t, hist[t].attempts)
            /\ promise[t].state = "resolved"
               => /\ hist[t].fails = hist[t].attempts - 1
                  /\ promise[t].value = Result(t, hist[t].attempts))
    /\ [][\A l \in Loops :
            /\ Running(l)
            /\ loop'[l].pc \notin {"delay", "send", "run"}
            /\ hist'[loop[l].item].fails = hist[loop[l].item].fails
            => promise'[loop[l].item].state = "resolved"]_vars

\* the promise of the second item was resolved by the first attempt of its
\* task, more than 30000 ms after its enqueue, the item before it having been
\* rejected
C31_Witness ==
    /\ Task(2) \in DOMAIN promise
    /\ promise[Task(2)].state = "resolved"
    /\ hist[Task(2)].attempts = 1
    /\ items[Task(2)].elapsed > Ms(timeout)
    /\ promise[Task(1)].state = "rejected"

====
